---- MODULE Spec2Model ----
(***************************************************************************)
(* Model of the Linda webhook agent: the HTTP handler of src/index.ts and  *)
(* the pipeline of src/agent/linda.ts (handleWebhook, logToSheet,          *)
(* summarizeEvent, decideAction, runAgent, buildNewAgentRepo and the       *)
(* commitFileToGitHub / sendTelegramNotification tools), together with     *)
(* appendToSheet / getAuth of src/utils/googleClient.ts.                   *)
(*                                                                         *)
(* JavaScript strings are TLA+ strings.  JavaScript values that the code   *)
(* inspects dynamically (headers, environment variables, the parsed        *)
(* payload) are tagged records [t |-> type, v |-> value].                  *)
(***************************************************************************)
EXTENDS Integers, Sequences, FiniteSets, TLC

\* ---------------------------------------------------------------- bounds
\* largest value the millisecond clock takes
MaxClock == 2
\* number of requests the runtime serves at the same time
Concurrent == 2

\* ------------------------------------------------------ JavaScript values
Undefined == [t |-> "undefined"]
Null == [t |-> "null"]
Str(s) == [t |-> "string", v |-> s]
Obj(f) == [t |-> "object", v |-> f]
Arr(q) == [t |-> "array", v |-> q]

\* x is null or undefined (what ?? and ?. test)
Nullish(x) == x.t \in {"undefined", "null"}

\* !x for the values an environment variable or a header can take
Falsy(x) == Nullish(x) \/ (x.t = "string" /\ x.v = "")

\* a ?? b
Coalesce(a, b) == IF Nullish(a) THEN b ELSE a

\* o.k for a non-nullish o (a missing property reads as undefined)
GetProp(o, k) ==
    IF o.t = "object" /\ k \in DOMAIN o.v THEN o.v[k] ELSE Undefined

\* o?.k
OptProp(o, k) == IF Nullish(o) THEN Undefined ELSE GetProp(o, k)

RECURSIVE JoinSeq(_, _)
\* Array.prototype.join on a sequence of strings already converted
JoinSeq(q, sep) ==
    IF Len(q) = 0 THEN ""
    ELSE IF Len(q) = 1 THEN q[1]
    ELSE q[1] \o sep \o JoinSeq(Tail(q), sep)

RECURSIVE ToStr(_)
\* String(x), the conversion a template literal applies
ToStr(x) ==
    CASE x.t = "undefined" -> "undefined"
      [] x.t = "null" -> "null"
      [] x.t = "string" -> x.v
      [] x.t = "object" -> "[object Object]"
      [] x.t = "array" ->
            JoinSeq([i \in 1..Len(x.v) |->
                        IF Nullish(x.v[i]) THEN "" ELSE ToStr(x.v[i])], ",")

\* ---------------------------------------------------------------- strings
UpperCase == "ABCDEFGHIJKLMNOPQRSTUVWXYZ"
LowerCase == "abcdefghijklmnopqrstuvwxyz"

CharLower(c) ==
    IF \E i \in 1..Len(UpperCase) : SubSeq(UpperCase, i, i) = c
    THEN LET i == CHOOSE j \in 1..Len(UpperCase) : SubSeq(UpperCase, j, j) = c
         IN SubSeq(LowerCase, i, i)
    ELSE c

RECURSIVE ToLowerCase(_)
\* String.prototype.toLowerCase
ToLowerCase(s) ==
    IF Len(s) = 0 THEN ""
    ELSE CharLower(SubSeq(s, 1, 1)) \o ToLowerCase(SubSeq(s, 2, Len(s)))

\* a search that stops one position early and misses a match at the end
IncludesNotAtEnd(s, sub) ==
    \E i \in 1..(Len(s) - Len(sub)) : SubSeq(s, i, i + Len(sub) - 1) = sub

\* String.prototype.includes
Includes(s, sub) ==
    \E i \in 1..(Len(s) - Len(sub) + 1) : SubSeq(s, i, i + Len(sub) - 1) = sub

\* the inputs contain no white space other than the space character
RECURSIVE TrimStart(_)
TrimStart(s) ==
    IF Len(s) > 0 /\ SubSeq(s, 1, 1) = " " THEN TrimStart(SubSeq(s, 2, Len(s)))
    ELSE s

RECURSIVE TrimEnd(_)
TrimEnd(s) ==
    IF Len(s) > 0 /\ SubSeq(s, Len(s), Len(s)) = " "
    THEN TrimEnd(SubSeq(s, 1, Len(s) - 1))
    ELSE s

\* String.prototype.trim
Trim(s) == TrimEnd(TrimStart(s))

\* ------------------------------------------------------- Event Summarizer
\* the outcome of a synchronous call: a returned string or a thrown error
Returned(s) == [ok |-> TRUE, v |-> s]
Thrown(e) == [ok |-> FALSE, v |-> e]

\* commits?.map((c) => c.message).join(" | ") inside the template literal:
\* the optional chain yields undefined for a nullish commits, a TypeError
\* when commits has no map method or an entry is null or undefined
CommitMessages(commits) ==
    IF Nullish(commits) THEN Returned("undefined")
    ELSE IF commits.t # "array" THEN Thrown("TypeError")
    ELSE IF \E i \in 1..Len(commits.v) : Nullish(commits.v[i])
         THEN Thrown("TypeError")
    ELSE Returned(JoinSeq(
            [i \in 1..Len(commits.v) |->
                LET m == GetProp(commits.v[i], "message")
                IN IF Nullish(m) THEN "" ELSE ToStr(m)], " | "))

summarizeEvent(event, payload) ==
    IF Nullish(payload) /\ event \in {"push", "issues", "issue_comment"}
    THEN Thrown("TypeError")
    ELSE IF event = "push" THEN
        LET repo == GetProp(payload, "repository")
            commits == GetProp(payload, "commits")
            msgs == CommitMessages(commits)
        IN IF msgs.ok
           THEN Returned("Push to "
                    \o ToStr(Coalesce(OptProp(repo, "full_name"), Str("unknown")))
                    \o ": " \o msgs.v)
           ELSE msgs
    ELSE IF event = "issues" THEN
        LET issue == GetProp(payload, "issue")
        IN Returned(Trim("Issue: "
                    \o ToStr(Coalesce(OptProp(issue, "title"), Str("")))
                    \o " "
                    \o ToStr(Coalesce(OptProp(issue, "body"), Str("")))))
    ELSE IF event = "issue_comment" THEN
        LET comment == GetProp(payload, "comment")
        IN Returned(Trim("Issue comment: "
                    \o ToStr(Coalesce(OptProp(comment, "body"), Str("")))))
    ELSE Returned("Unhandled event " \o event)

\* -------------------------------------------------------- Action Classifier
decideAction(summary) ==
    LET lowered == ToLowerCase(summary)
    IN IF Includes(lowered, "build an agent")
          \/ Includes(lowered, "generate a new agent")
       THEN "build-agent"
       ELSE "fix-or-feature"

\* ------------------------------------------------------------ environment
EnvFull ==
    [GITHUB_WEBHOOK_SECRET |-> Str("s3cret"),
     GOOGLE_SHEETS_ID |-> Str("sheet-1"),
     GOOGLE_SHEETS_RANGE |-> Undefined,
     GOOGLE_CLIENT_EMAIL |-> Str("linda@example.iam"),
     GOOGLE_PRIVATE_KEY |-> Str("key"),
     GITHUB_TOKEN |-> Str("ghp"),
     GITHUB_OWNER |-> Str("acme"),
     TELEGRAM_BOT_TOKEN |-> Str("bot"),
     TELEGRAM_CHAT_ID |-> Str("42")]

EnvNone == [k \in DOMAIN EnvFull |-> Undefined]

\* the process environments the model starts from: everything configured,
\* one variable absent or empty at a time, and the sparse configurations
Environments ==
    << EnvFull,
       [EnvFull EXCEPT !.GITHUB_WEBHOOK_SECRET = Undefined],
       [EnvFull EXCEPT !.GITHUB_WEBHOOK_SECRET = Str("")],
       [EnvFull EXCEPT !.GOOGLE_SHEETS_ID = Undefined],
       [EnvFull EXCEPT !.GOOGLE_SHEETS_RANGE = Str("Audit!A:D")],
       [EnvFull EXCEPT !.GOOGLE_CLIENT_EMAIL = Undefined],
       [EnvFull EXCEPT !.GOOGLE_PRIVATE_KEY = Undefined],
       [EnvFull EXCEPT !.GITHUB_TOKEN = Undefined],
       [EnvFull EXCEPT !.GITHUB_OWNER = Undefined],
       [EnvFull EXCEPT !.TELEGRAM_BOT_TOKEN = Undefined],
       [EnvFull EXCEPT !.TELEGRAM_CHAT_ID = Undefined],
       [EnvNone EXCEPT !.GITHUB_WEBHOOK_SECRET = Str("s3cret")],
       [EnvNone EXCEPT !.GITHUB_WEBHOOK_SECRET = Str("s3cret"),
                       !.GITHUB_TOKEN = Str("ghp"),
                       !.GITHUB_OWNER = Str("acme")],
       EnvNone >>

\* ---------------------------------------------------------- request inputs
\* request bodies: the text on the wire and what JSON.parse makes of it
Bodies ==
    << [raw |-> "{\"issue\":{\"title\":\"Build an agent\",\"body\":\"for metrics\"}}",
        parsed |-> Returned(Obj([issue |->
                      Obj([title |-> Str("Build an agent"),
                           body |-> Str("for metrics")])]))],
       [raw |-> "{\"comment\":{\"body\":\"please fix the crash on startup\"}}",
        parsed |-> Returned(Obj([comment |->
                      Obj([body |-> Str("please fix the crash on startup")])]))],
       [raw |-> "{\"repository\":{\"full_name\":\"acme/widgets\"},\"commits\":[{\"message\":\"fix bug\"},{\"message\":\"add test\"}]}",
        parsed |-> Returned(Obj([repository |-> Obj([full_name |-> Str("acme/widgets")]),
                                 commits |-> Arr(<< Obj([message |-> Str("fix bug")]),
                                                    Obj([message |-> Str("add test")]) >>)]))],
       [raw |-> "{\"commits\":[{},{\"message\":\"Generate a NEW agent\"}],\"issue\":{\"body\":\"rebuild an agents list\"}}",
        parsed |-> Returned(Obj([commits |-> Arr(<< Obj(<<>>),
                                                    Obj([message |-> Str("Generate a NEW agent")]) >>),
                                 issue |-> Obj([body |-> Str("rebuild an agents list")])]))],
       [raw |-> "{\"comment\":{\"body\":\" an agentbuild\"}}",
        parsed |-> Returned(Obj([comment |-> Obj([body |-> Str(" an agentbuild")])]))],
       [raw |-> "{}",
        parsed |-> Returned(Obj(<<>>))],
       [raw |-> "null",
        parsed |-> Returned(Null)],
       [raw |-> "{\"commits\":\"none\",\"repository\":null}",
        parsed |-> Returned(Obj([commits |-> Str("none"), repository |-> Null]))],
       [raw |-> "{\"commits\":[null]}",
        parsed |-> Returned(Obj([commits |-> Arr(<< Null >>)]))],
       [raw |-> "{\"issue\":",
        parsed |-> Thrown("SyntaxError")] >>

RawBodies == {Bodies[i].raw : i \in DOMAIN Bodies}

\* a parser that turns text it cannot read into an empty object
JSONparseLenient(raw) ==
    LET i == CHOOSE j \in DOMAIN Bodies : Bodies[j].raw = raw
    IN IF Bodies[i].parsed.ok THEN Bodies[i].parsed ELSE Returned(Obj(<< >>))

\* JSON.parse, on the bodies above
JSONparse(raw) ==
    LET i == CHOOSE j \in DOMAIN Bodies : Bodies[j].raw = raw
    IN Bodies[i].parsed

\* values of the x-github-event header
EventHeaders ==
    {Undefined, Str(""), Str("push"), Str("issues"), Str("issue_comment"),
     Str("ping"), Str("Build An Agent")}

Methods == {"POST", "GET"}

\* HMAC-SHA256 as an ideal keyed hash: equal only on equal key and message
HmacSha256(key, msg) == "hmac(" \o key \o "," \o msg \o ")"

\* the signature GitHub computes for a body under a key
sign(key, body) == "sha256=" \o HmacSha256(key, body)

\* values of the x-hub-signature-256 header a sender can attach to a body
SignatureHeaders(body) ==
    {Undefined, Str(""), Str("sha256=0000")}
    \cup {Str(sign(k, body)) : k \in {"s3cret", "guess", ""}}
    \cup {Str(sign("s3cret", "{}"))}

\* what the reasoning backend may answer
ModelReplies == {"Open a PR that fixes it", "No action needed"}

\* ------------------------------------------------------------------ state
VARIABLES
    env,        \* process.env, fixed for the life of the process
    now,        \* the last value read from the millisecond clock
    req,        \* the request being handled: method, headers, body
    pc,         \* the statement the handler is at (the call it awaits)
    rawBody,    \* handler: rawBody
    payload,    \* handler: payload
    summary,    \* handleWebhook: summary
    action,     \* handleWebhook: action
    repoName,   \* buildNewAgentRepo: repoName
    result,     \* handleWebhook: result
    responses,  \* what jsonResponse wrote to res, in order
    rejection,  \* the error the handler's promise rejected with
    inflight,   \* remote calls issued and not yet settled
    history,    \* the steps taken for the request, in order
    sheet,      \* rows of the spreadsheet
    repos,      \* repositories that exist on the host
    refs,       \* repositories whose branch ref was advanced
    sent        \* chat messages delivered

vars == << env, now, req, pc, rawBody, payload, summary, action, repoName,
           result, responses, rejection, inflight, history, sheet, repos,
           refs, sent >>

locals == << rawBody, payload, summary, action, repoName, result >>
remote == << sheet, repos, refs, sent >>

NoRequest == [method |-> "", signature |-> Undefined, event |-> Undefined,
              body |-> ""]

\* const webhookSecret = process.env.GITHUB_WEBHOOK_SECRET
webhookSecret == env.GITHUB_WEBHOOK_SECRET

\* new Webhooks({ secret: webhookSecret ?? "" })
webhooksSecret == Coalesce(webhookSecret, Str("")).v

\* a verifier that accepts every signature
verifyAcceptsAll(body, signature) == TRUE

\* webhooks.verify(rawBody, signature)
verify(body, signature) == signature = sign(webhooksSecret, body)

Init ==
    /\ \E i \in DOMAIN Environments : env = Environments[i]
    /\ now = 1
    /\ req = NoRequest
    /\ pc = "idle"
    /\ rawBody = ""
    /\ payload = Undefined
    /\ summary = ""
    /\ action = ""
    /\ repoName = ""
    /\ result = ""
    /\ responses = << >>
    /\ rejection = ""
    /\ inflight = {}
    /\ history = << >>
    /\ sheet = << >>
    /\ repos = {}
    /\ refs = {}
    /\ sent = << >>

\* ---------------------------------------------------------------- helpers
\* jsonResponse(res, status, payload); the handler returns right after it
jsonResponse(status, body) ==
    /\ responses' = Append(responses, [status |-> status, body |-> body])
    /\ history' = Append(history, << "respond", ToString(status) >>)
    /\ pc' = "responded"

\* an error nobody catches: the handler's promise rejects, nothing is
\* written to res
Reject(error) ==
    /\ rejection' = error
    /\ pc' = "rejected"
    /\ UNCHANGED responses

\* a handler that does not wait for the append to settle
AwaitExceptAppend(call) == IF call = "sheets.append" THEN "dispatch" ELSE call

\* the label of the handler while it awaits a remote call
Await(call) == call

\* a remote call: the API method and the arguments it is given
RemoteCall(name, args) == [name |-> name, args |-> args]

\* issue a remote call and suspend until it settles
Call(call) ==
    /\ inflight' = inflight \cup {call}
    /\ pc' = Await(call.name)

\* the steps recorded for the request
Log(events) == history' = history \o events

\* toISOString of a clock value (clock values stay below ten)
toISOString(t) == "1970-01-01T00:00:00.00" \o ToString(t) \o "Z"

\* ---------------------------------------------------------------- handler
\* a request arrives and handler(req, res) is entered
Receive ==
    /\ pc = "idle"
    /\ \E m \in Methods, b \in RawBodies, e \in EventHeaders :
         \E s \in SignatureHeaders(b) :
            req' = [method |-> m, signature |-> s, event |-> e, body |-> b]
    /\ pc' = "method"
    /\ UNCHANGED << env, now, locals, responses, rejection, inflight,
                    history, remote >>

\* if (req.method !== "POST") return 405
CheckMethod ==
    /\ pc = "method"
    /\ IF req.method # "POST"
       THEN jsonResponse(405, [message |-> "Method Not Allowed"])
       ELSE pc' = "secret" /\ UNCHANGED << responses, history >>
    /\ UNCHANGED << env, now, req, locals, rejection, inflight, remote >>

\* a secret check that lets the empty string pass
SecretMissingUndefinedOnly == webhookSecret = Undefined

\* !webhookSecret
SecretMissing == Falsy(webhookSecret)

\* if (!webhookSecret) return 500
CheckSecret ==
    /\ pc = "secret"
    /\ IF SecretMissing
       THEN jsonResponse(500, [message |-> "Missing GITHUB_WEBHOOK_SECRET"])
       ELSE pc' = "readRawBody" /\ UNCHANGED << responses, history >>
    /\ UNCHANGED << env, now, req, locals, rejection, inflight, remote >>

\* const rawBody = await readRawBody(req): the stream ends or errors
ReadRawBody ==
    /\ pc = "readRawBody"
    /\ \/ /\ rawBody' = req.body
          /\ pc' = "headers"
          /\ UNCHANGED << rejection, responses >>
       \/ /\ Reject("stream error")
          /\ UNCHANGED rawBody
    /\ UNCHANGED << env, now, req, payload, summary, action, repoName, result,
                    inflight, history, remote >>

\* a header check that forgets the event-type header
HeadersMissingSignatureOnly(signature, event) == Falsy(signature)

\* !signature || !event
HeadersMissing(signature, event) == Falsy(signature) \/ Falsy(event)

\* if (!signature || !event) return 400
CheckHeaders ==
    /\ pc = "headers"
    /\ IF HeadersMissing(req.signature, req.event)
       THEN jsonResponse(400, [message |-> "Missing GitHub webhook headers"])
       ELSE pc' = "verify" /\ UNCHANGED << responses, history >>
    /\ UNCHANGED << env, now, req, locals, rejection, inflight, remote >>

\* const isValid = await webhooks.verify(rawBody, signature);
\* if (!isValid) return 401
VerifySignature ==
    /\ pc = "verify"
    /\ IF ~verify(rawBody, req.signature.v)
       THEN jsonResponse(401, [message |-> "Invalid signature"])
       ELSE pc' = "parse" /\ UNCHANGED << responses, history >>
    /\ UNCHANGED << env, now, req, locals, rejection, inflight, remote >>

\* const payload = JSON.parse(rawBody)
ParseBody ==
    /\ pc = "parse"
    /\ LET parsed == JSONparse(rawBody)
       IN IF parsed.ok
          THEN /\ payload' = parsed.v
               /\ pc' = "summarizeEvent"
               /\ UNCHANGED << rejection, responses >>
          ELSE /\ Reject(parsed.v)
               /\ UNCHANGED payload
    /\ UNCHANGED << env, now, req, rawBody, summary, action, repoName, result,
                    inflight, history, remote >>

\* ---------------------------------------------------------- handleWebhook
\* const summary = summarizeEvent(event, payload)
SummarizeEvent ==
    /\ pc = "summarizeEvent"
    /\ LET s == summarizeEvent(ToStr(req.event), payload)
       IN IF s.ok
          THEN /\ summary' = s.v
               /\ pc' = "decideAction"
               /\ Log(<< << "summarizeEvent", "return" >> >>)
               /\ UNCHANGED << rejection, responses >>
          ELSE /\ Reject(s.v)
               /\ Log(<< << "summarizeEvent", "throw" >> >>)
               /\ UNCHANGED summary
    /\ UNCHANGED << env, now, req, rawBody, payload, action, repoName, result,
                    inflight, remote >>

\* const action = decideAction(summary)
DecideAction ==
    /\ pc = "decideAction"
    /\ action' = decideAction(summary)
    /\ pc' = "logToSheet"
    /\ Log(<< << "decideAction", "return" >> >>)
    /\ UNCHANGED << env, now, req, rawBody, payload, summary, repoName, result,
                    responses, rejection, inflight, remote >>

\* a logger that falls back to a default spreadsheet
spreadsheetIdWithDefault == Coalesce(env.GOOGLE_SHEETS_ID, Str("sheet-0"))

\* logToSheet: const spreadsheetId = process.env.GOOGLE_SHEETS_ID
spreadsheetId == env.GOOGLE_SHEETS_ID

\* logToSheet: const range = process.env.GOOGLE_SHEETS_RANGE ?? "Logs!A:D"
range == Coalesce(env.GOOGLE_SHEETS_RANGE, Str("Logs!A:D"))

\* getAuth: !clientEmail || !privateKey
getAuthThrows ==
    Falsy(env.GOOGLE_CLIENT_EMAIL) \/ Falsy(env.GOOGLE_PRIVATE_KEY)

\* await logToSheet({event, action, summary}) up to the append request:
\* nothing to do without a spreadsheet id; otherwise the row is built (the
\* clock is read), getAuth runs and the append is sent
LogToSheet ==
    /\ pc = "logToSheet"
    /\ IF Falsy(spreadsheetId)
       THEN /\ pc' = "dispatch"
            /\ Log(<< << "logToSheet", "enter" >>, << "logToSheet", "return" >> >>)
            /\ UNCHANGED << now, inflight, rejection, responses >>
       ELSE \E t \in now..MaxClock :
            /\ now' = t
            /\ IF getAuthThrows
               THEN /\ Reject("Missing GOOGLE_CLIENT_EMAIL or GOOGLE_PRIVATE_KEY")
                    /\ Log(<< << "logToSheet", "enter" >>, << "logToSheet", "throw" >> >>)
                    /\ UNCHANGED inflight
               ELSE /\ Call(RemoteCall("sheets.append",
                               << spreadsheetId.v, range.v, toISOString(t),
                                  ToStr(req.event), action, summary >>))
                    /\ Log(<< << "logToSheet", "enter" >>, << "sheets.append", "call" >> >>)
                    /\ UNCHANGED << rejection, responses >>
    /\ UNCHANGED << env, req, locals, remote >>

\* sheets.spreadsheets.values.append settles; logToSheet has no catch
AppendReturn ==
    \E call \in inflight :
    /\ call.name = "sheets.append"
    /\ inflight' = inflight \ {call}
    /\ \/ /\ sheet' = Append(sheet, SubSeq(call.args, 3, 6))
          /\ IF pc = Await(call.name)
             THEN /\ pc' = "dispatch"
                  /\ Log(<< << call.name, "ok" >>, << "logToSheet", "return" >> >>)
             ELSE /\ Log(<< << call.name, "ok" >> >>)
                  /\ UNCHANGED pc
          /\ UNCHANGED << rejection, responses >>
       \/ /\ IF pc = Await(call.name)
             THEN /\ Reject(call.name)
                  /\ Log(<< << call.name, "fail" >>, << "logToSheet", "throw" >> >>)
             ELSE /\ Log(<< << call.name, "fail" >> >>)
                  /\ UNCHANGED << pc, rejection, responses >>
          /\ UNCHANGED sheet
    /\ UNCHANGED << env, now, req, locals, repos, refs, sent >>

\* result = await runAgent(summary): the prompt goes to the model
RunAgent ==
    /\ pc = "dispatch"
    /\ action # "build-agent"
    /\ Call(RemoteCall("openai.invoke", << summary >>))
    /\ Log(<< << "runAgent", "enter" >>, << "openai.invoke", "call" >> >>)
    /\ UNCHANGED << env, now, req, locals, responses, rejection, remote >>

\* openAiModel.invoke settles; return response.content
InvokeReturn ==
    \E call \in inflight :
    /\ call.name = "openai.invoke"
    /\ pc = Await(call.name)
    /\ inflight' = inflight \ {call}
    /\ \/ /\ \E content \in ModelReplies : result' = content
          /\ pc' = "notify"
          /\ Log(<< << call.name, "ok" >>, << "runAgent", "return" >> >>)
          /\ UNCHANGED << rejection, responses >>
       \/ /\ Reject(call.name)
          /\ Log(<< << call.name, "fail" >>, << "runAgent", "throw" >> >>)
          /\ UNCHANGED result
    /\ UNCHANGED << env, now, req, rawBody, payload, summary, action, repoName,
                    remote >>

\* ------------------------------------------------------ buildNewAgentRepo
\* a commit sequence that moves the ref before the commit exists
GitStepsRefFirst == << "git.getRef", "git.getCommit", "git.createBlob",
                       "git.createTree", "git.updateRef", "git.createCommit" >>

\* the calls of commitFileToGitHub, in the order the code awaits them
GitSteps == << "git.getRef", "git.getCommit", "git.createBlob",
               "git.createTree", "git.createCommit", "git.updateRef" >>

\* const scaffold = `# ${repoName}\n\nGenerated by Linda. Summary: ${summary}\n`
scaffold == "# " \o repoName \o "\n\nGenerated by Linda. Summary: " \o summary \o "\n"

\* a builder that checks the token and forgets the owner
configErrorTokenOnly ==
    IF Falsy(env.GITHUB_TOKEN) THEN "Missing GITHUB_TOKEN" ELSE ""

\* buildNewAgentRepo: the string its configuration checks return, "" when
\* token and owner are both there
configError ==
    IF Falsy(env.GITHUB_TOKEN) THEN "Missing GITHUB_TOKEN"
    ELSE IF Falsy(env.GITHUB_OWNER) THEN "Missing GITHUB_OWNER"
    ELSE ""

\* a name with the clock cut to a coarser unit
repoNameCoarse(t) == "agent-" \o ToString((t + 1) \div 2)

\* const repoName = `agent-${Date.now()}`
repoNameAt(t) == "agent-" \o ToString(t)

\* result = await buildNewAgentRepo(summary) up to the repository creation:
\* the configuration checks, the name from the clock, the create request
BuildNewAgentRepo ==
    /\ pc = "dispatch"
    /\ action = "build-agent"
    /\ IF configError # ""
       THEN /\ result' = configError
            /\ pc' = "notify"
            /\ Log(<< << "buildNewAgentRepo", "enter" >>,
                      << "buildNewAgentRepo", "return" >> >>)
            /\ UNCHANGED << now, repoName, inflight >>
       ELSE \E t \in now..MaxClock :
            /\ now' = t
            /\ repoName' = repoNameAt(t)
            /\ Call(RemoteCall("repos.createForAuthenticatedUser",
                               << repoNameAt(t) >>))
            /\ Log(<< << "buildNewAgentRepo", "enter" >>,
                      << "repos.createForAuthenticatedUser", "call" >> >>)
            /\ UNCHANGED result
    /\ UNCHANGED << env, req, rawBody, payload, summary, action, responses,
                    rejection, remote >>

\* the repository creation settles; on success commitFileToGitHub.func
\* starts with its own token check and the first git call
CreateRepoReturn ==
    \E call \in inflight :
    /\ call.name = "repos.createForAuthenticatedUser"
    /\ pc = Await(call.name)
    /\ \/ /\ repos' = repos \cup {call.args[1]}
          /\ IF Falsy(env.GITHUB_TOKEN)
             THEN /\ result' = "Created new agent repository: " \o repoName
                  /\ pc' = "notify"
                  /\ inflight' = inflight \ {call}
                  /\ Log(<< << call.name, "ok" >>,
                            << "buildNewAgentRepo", "return" >> >>)
             ELSE /\ inflight' = (inflight \ {call}) \cup
                        {RemoteCall(GitSteps[1],
                            << ToStr(env.GITHUB_OWNER), repoName, "README.md",
                               "chore: initial agent scaffold", scaffold, "main" >>)}
                  /\ pc' = Await(GitSteps[1])
                  /\ Log(<< << call.name, "ok" >>, << GitSteps[1], "call" >> >>)
                  /\ UNCHANGED result
          /\ UNCHANGED << rejection, responses >>
       \/ /\ Reject(call.name)
          /\ inflight' = inflight \ {call}
          /\ Log(<< << call.name, "fail" >>, << "buildNewAgentRepo", "throw" >> >>)
          /\ UNCHANGED << result, repos >>
    /\ UNCHANGED << env, now, req, rawBody, payload, summary, action, repoName,
                    sheet, refs, sent >>

\* one call of the commit sequence settles: the next one is issued, and
\* after updateRef buildNewAgentRepo returns its confirmation
GitReturn ==
    \E call \in inflight, i \in DOMAIN GitSteps :
    /\ call.name = GitSteps[i]
    /\ pc = Await(call.name)
    /\ \/ /\ IF i < Len(GitSteps)
             THEN /\ inflight' = (inflight \ {call}) \cup
                        {RemoteCall(GitSteps[i + 1], call.args)}
                  /\ pc' = Await(GitSteps[i + 1])
                  /\ Log(<< << call.name, "ok" >>, << GitSteps[i + 1], "call" >> >>)
                  /\ UNCHANGED << result, refs >>
             ELSE /\ inflight' = inflight \ {call}
                  /\ refs' = refs \cup {call.args[2]}
                  /\ result' = "Created new agent repository: " \o repoName
                  /\ pc' = "notify"
                  /\ Log(<< << call.name, "ok" >>,
                            << "buildNewAgentRepo", "return" >> >>)
          /\ UNCHANGED << rejection, responses >>
       \/ /\ Reject(call.name)
          /\ inflight' = inflight \ {call}
          /\ Log(<< << call.name, "fail" >>, << "buildNewAgentRepo", "throw" >> >>)
          /\ UNCHANGED << result, refs >>
    /\ UNCHANGED << env, now, req, rawBody, payload, summary, action, repoName,
                    sheet, repos, sent >>

\* ---------------------------------------------------------------- Notifier
\* `Linda update: ${action} completed. Summary: ${summary}. Result: ${result}`
message ==
    "Linda update: " \o action \o " completed. Summary: " \o summary
        \o ". Result: " \o result

\* await sendTelegramNotification.func({message}) up to the send request:
\* without token or chat id it returns a string the caller drops
Notify ==
    /\ pc = "notify"
    /\ IF Falsy(env.TELEGRAM_BOT_TOKEN) \/ Falsy(env.TELEGRAM_CHAT_ID)
       THEN /\ pc' = "respond"
            /\ Log(<< << "sendTelegramNotification", "enter" >>,
                      << "sendTelegramNotification", "return" >> >>)
            /\ UNCHANGED inflight
       ELSE /\ Call(RemoteCall("telegram.sendMessage",
                               << env.TELEGRAM_CHAT_ID.v, message >>))
            /\ Log(<< << "sendTelegramNotification", "enter" >>,
                      << "telegram.sendMessage", "call" >> >>)
    /\ UNCHANGED << env, now, req, locals, responses, rejection, remote >>

\* bot.sendMessage settles; handleWebhook has no catch around the notifier
SendMessageReturn ==
    \E call \in inflight :
    /\ call.name = "telegram.sendMessage"
    /\ pc = Await(call.name)
    /\ inflight' = inflight \ {call}
    /\ \/ /\ sent' = Append(sent, call.args[2])
          /\ pc' = "respond"
          /\ Log(<< << call.name, "ok" >>,
                    << "sendTelegramNotification", "return" >> >>)
          /\ UNCHANGED << rejection, responses >>
       \/ /\ Reject(call.name)
          /\ Log(<< << call.name, "fail" >>,
                    << "sendTelegramNotification", "throw" >> >>)
          /\ UNCHANGED sent
    /\ UNCHANGED << env, now, req, locals, sheet, repos, refs >>

\* return result; return jsonResponse(res, 200, {status: "ok", result})
Respond ==
    /\ pc = "respond"
    /\ jsonResponse(200, [status |-> "ok", result |-> result])
    /\ UNCHANGED << env, now, req, locals, rejection, inflight, remote >>

\* ------------------------------------------------------------ specification
Next ==
    \/ Receive
    \/ CheckMethod
    \/ CheckSecret
    \/ ReadRawBody
    \/ CheckHeaders
    \/ VerifySignature
    \/ ParseBody
    \/ SummarizeEvent
    \/ DecideAction
    \/ LogToSheet
    \/ AppendReturn
    \/ RunAgent
    \/ InvokeReturn
    \/ BuildNewAgentRepo
    \/ CreateRepoReturn
    \/ GitReturn
    \/ Notify
    \/ SendMessageReturn
    \/ Respond

Spec == Init /\ [][Next]_vars

TypeOK ==
    /\ pc \in {"idle", "method", "secret", "readRawBody", "headers", "verify",
               "parse", "summarizeEvent", "decideAction", "logToSheet",
               "dispatch", "notify", "respond", "responded", "rejected",
               "sheets.append", "openai.invoke",
               "repos.createForAuthenticatedUser", "telegram.sendMessage"}
              \cup {GitSteps[i] : i \in DOMAIN GitSteps}
    /\ now \in 1..MaxClock
    /\ Len(responses) <= 1
    /\ Cardinality(inflight) <= 1

\* ------------------------------------------- BuildAgent dispatches at once
\* The runtime serves several requests at the same time: each runs its own
\* buildNewAgentRepo, and a request is suspended only at its awaits.  Here
\* pc, summary, action, repoName, result and rejection hold one value for
\* each request, a call in flight carries the request that issued it, and
\* the history keeps, for each request, what its dispatch began with.
Requests == 1..Concurrent

\* summaries of requests that ask for an agent
BuilderSummaries ==
    {"Issue: Build an agent for metrics", "Unhandled event Build An Agent"}

\* the state when every request has been verified, summarised and logged,
\* in the environments that differ only in what the builder reads
ConcurrentInit ==
    /\ \E i \in DOMAIN Environments :
          /\ env = Environments[i]
          /\ \A k \in DOMAIN EnvFull \ {"GITHUB_TOKEN", "GITHUB_OWNER"} :
                Environments[i][k] = EnvFull[k]
    /\ now = 1
    /\ req = NoRequest
    /\ rawBody = ""
    /\ payload = Undefined
    /\ summary \in [Requests -> BuilderSummaries]
    /\ action = [r \in Requests |-> decideAction(summary[r])]
    /\ pc = [r \in Requests |-> "dispatch"]
    /\ repoName = [r \in Requests |-> ""]
    /\ result = [r \in Requests |-> ""]
    /\ rejection = [r \in Requests |-> ""]
    /\ responses = << >>
    /\ inflight = {}
    /\ history = << >>
    /\ sheet = << >>
    /\ repos = {}
    /\ refs = {}
    /\ sent = << >>

\* a remote call together with the request that awaits it
CallOf(r, call) == [name |-> call.name, args |-> call.args, request |-> r]

\* buildNewAgentRepo of one request up to the repository creation
ConcurrentBuild ==
    \E r \in Requests :
    /\ pc[r] = "dispatch"
    /\ action[r] = "build-agent"
    /\ IF configError # ""
       THEN /\ result' = [result EXCEPT ![r] = configError]
            /\ pc' = [pc EXCEPT ![r] = "notify"]
            /\ Log(<< << "buildNewAgentRepo", "enter", r >>,
                      << "buildNewAgentRepo", "return", r >> >>)
            /\ UNCHANGED << now, repoName, inflight >>
       ELSE \E t \in now..MaxClock :
            /\ now' = t
            /\ repoName' = [repoName EXCEPT ![r] = repoNameAt(t)]
            /\ inflight' = inflight \cup
                  {CallOf(r, RemoteCall("repos.createForAuthenticatedUser",
                                        << repoNameAt(t) >>))}
            /\ pc' = [pc EXCEPT ![r] = Await("repos.createForAuthenticatedUser")]
            /\ Log(<< << "buildNewAgentRepo", "enter", r >>,
                      << "Date.now", ToString(t), r >>,
                      << "repos.createForAuthenticatedUser", "call", r >> >>)
            /\ UNCHANGED result
    /\ UNCHANGED << env, req, rawBody, payload, summary, action, responses,
                    rejection, remote >>

\* the repository creation of one request settles
ConcurrentCreateReturn ==
    \E call \in inflight :
    LET r == call.request IN
    /\ call.name = "repos.createForAuthenticatedUser"
    /\ pc[r] = Await(call.name)
    /\ \/ /\ repos' = repos \cup {call.args[1]}
          /\ inflight' = (inflight \ {call}) \cup
                {CallOf(r, RemoteCall(GitSteps[1],
                    << ToStr(env.GITHUB_OWNER), repoName[r], "README.md",
                       "chore: initial agent scaffold",
                       "# " \o repoName[r] \o "\n\nGenerated by Linda. Summary: "
                            \o summary[r] \o "\n",
                       "main" >>))}
          /\ pc' = [pc EXCEPT ![r] = Await(GitSteps[1])]
          /\ UNCHANGED rejection
       \/ /\ rejection' = [rejection EXCEPT ![r] = call.name]
          /\ pc' = [pc EXCEPT ![r] = "rejected"]
          /\ inflight' = inflight \ {call}
          /\ UNCHANGED repos
    /\ UNCHANGED << env, now, req, rawBody, payload, summary, action, repoName,
                    result, responses, history, sheet, refs, sent >>

\* one call of the commit sequence of one request settles
ConcurrentGitReturn ==
    \E call \in inflight, i \in DOMAIN GitSteps :
    LET r == call.request IN
    /\ call.name = GitSteps[i]
    /\ pc[r] = Await(call.name)
    /\ \/ /\ IF i < Len(GitSteps)
             THEN /\ inflight' = (inflight \ {call}) \cup
                        {CallOf(r, RemoteCall(GitSteps[i + 1], call.args))}
                  /\ pc' = [pc EXCEPT ![r] = Await(GitSteps[i + 1])]
                  /\ UNCHANGED << result, refs >>
             ELSE /\ inflight' = inflight \ {call}
                  /\ refs' = refs \cup {call.args[2]}
                  /\ result' = [result EXCEPT ![r] =
                        "Created new agent repository: " \o repoName[r]]
                  /\ pc' = [pc EXCEPT ![r] = "notify"]
          /\ UNCHANGED rejection
       \/ /\ rejection' = [rejection EXCEPT ![r] = call.name]
          /\ pc' = [pc EXCEPT ![r] = "rejected"]
          /\ inflight' = inflight \ {call}
          /\ UNCHANGED << result, refs >>
    /\ UNCHANGED << env, now, req, rawBody, payload, summary, action, repoName,
                    responses, history, sheet, repos, sent >>

ConcurrentNext ==
    \/ ConcurrentBuild
    \/ ConcurrentCreateReturn
    \/ ConcurrentGitReturn

ConcurrentSpec == ConcurrentInit /\ [][ConcurrentNext]_vars

\* ------------------------------------------------------------ observations
Has(e) == \E i \in DOMAIN history : history[i] = e
Count(e) == Cardinality({i \in DOMAIN history : history[i] = e})
Terminal == pc \in {"responded", "rejected"}
Arrived == pc # "idle"

\* the request as the sender made it
IsPost == req.method = "POST"
SecretConfigured == ~Falsy(env.GITHUB_WEBHOOK_SECRET)
HasBothHeaders == ~Falsy(req.signature) /\ ~Falsy(req.event)
SignatureMatches ==
    /\ SecretConfigured
    /\ req.signature = Str(sign(env.GITHUB_WEBHOOK_SECRET.v, req.body))

ExecutorInvoked == Has(<< "runAgent", "enter" >>)
BuilderInvoked == Has(<< "buildNewAgentRepo", "enter" >>)
LoggerInvoked == Has(<< "logToSheet", "enter" >>)
NotifierInvoked == Has(<< "sendTelegramNotification", "enter" >>)

\* nothing of the pipeline has happened: no append, no dispatch, no notice
NoSideEffect ==
    /\ ~LoggerInvoked /\ ~ExecutorInvoked /\ ~BuilderInvoked /\ ~NotifierInvoked
    /\ \A i \in DOMAIN history : history[i][1] = "respond"
    /\ inflight = {}
    /\ sheet = << >> /\ repos = {} /\ refs = {} /\ sent = << >>

\* the one response is a 200 that carries the dispatch result
Responded200 ==
    /\ pc = "responded"
    /\ responses = << [status |-> 200, body |-> [status |-> "ok", result |-> result]] >>

\* the statements of the handler before the pipeline
BeforePipeline ==
    {"method", "secret", "readRawBody", "headers", "verify", "responded", "rejected"}

\* ------------------------------------------------------------------ claims
\* the append request to the tabular store was sent and rejected
AppendFailed == Has(<< "sheets.append", "fail" >>)

\* C1: Logger isolation. When a destination is configured and the append
\* call throws or rejects on a verified POST request, the dispatch is still
\* invoked and the handler answers 200 with {status: "ok", result}.
C1_LoggerIsolation ==
    (Terminal /\ ~Falsy(env.GOOGLE_SHEETS_ID) /\ AppendFailed)
        => /\ ExecutorInvoked \/ BuilderInvoked
           /\ Responded200

\* the notification send failed after the dispatch returned a result
NotifyFailed == Has(<< "telegram.sendMessage", "fail" >>)

\* C2: Notifier isolation. A failed notification send does not change what
\* the webhook caller sees: 200 with the dispatch result already computed.
C2_NotifierIsolation ==
    (Terminal /\ NotifyFailed) => Responded200

\* C3: every request that was read ends in exactly one HTTP response, with
\* status 405, 500, 400, 401 or 200, whatever body parsing and the
\* collaborator calls do.
C3_ExactlyOneResponse ==
    (Terminal /\ rejection # "stream error")
        => /\ Len(responses) = 1
           /\ responses[1].status \in {405, 500, 400, 401, 200}

\* C4: a POST request with a configured secret and both headers whose
\* signature is not the HMAC-SHA256 of the raw body never gets past the
\* signature check, causes no side effect, and is answered with 401.
C4_InvalidSignature401 ==
    (Arrived /\ IsPost /\ SecretConfigured /\ HasBothHeaders /\ ~SignatureMatches)
        => /\ pc \in BeforePipeline
           /\ NoSideEffect
           /\ pc = "responded" =>
                responses = << [status |-> 401,
                                body |-> [message |-> "Invalid signature"]] >>
           /\ pc = "rejected" => rejection = "stream error"

C4_Witness ==
    /\ IsPost /\ SecretConfigured /\ HasBothHeaders /\ ~SignatureMatches
    /\ pc = "responded"
    /\ responses[1].status = 401
    /\ req.signature = Str(sign("guess", req.body))

\* C5: a POST request with a configured secret that lacks the signature or
\* the event-type header never reaches the signature check, causes no side
\* effect, and is answered with 400.
C5_MissingHeaders400 ==
    (Arrived /\ IsPost /\ SecretConfigured /\ ~HasBothHeaders)
        => /\ pc \in BeforePipeline \ {"verify"}
           /\ NoSideEffect
           /\ pc = "responded" =>
                responses = << [status |-> 400,
                                body |-> [message |-> "Missing GitHub webhook headers"]] >>
           /\ pc = "rejected" => rejection = "stream error"

C5_Witness ==
    /\ IsPost /\ SecretConfigured
    /\ req.signature = Str(sign(env.GITHUB_WEBHOOK_SECRET.v, req.body))
    /\ Falsy(req.event)
    /\ pc = "responded"
    /\ responses[1].status = 400

\* the status the first failing check of the claimed order decides
FirstFailingCheck ==
    IF ~IsPost THEN 405
    ELSE IF ~SecretConfigured THEN 500
    ELSE IF ~HasBothHeaders THEN 400
    ELSE IF ~SignatureMatches THEN 401
    ELSE 200

\* C6: the checks run in the order method, secret, headers, signature and
\* the first one that fails decides the response: a non-POST request always
\* gets 405, a POST without a configured secret always gets 500, then come
\* 400 and 401, and the pipeline is reached only when all four passed.
C6_CheckOrder ==
    Arrived =>
        /\ pc = "responded" => responses[1].status = FirstFailingCheck
        /\ FirstFailingCheck \in {405, 500} => pc \in {"method", "secret", "responded"}
        /\ pc \notin BeforePipeline => FirstFailingCheck = 200

C6_Witness ==
    /\ IsPost /\ ~SecretConfigured
    /\ req.signature = Str(sign("", req.body))
    /\ ~Falsy(req.event)
    /\ pc = "responded"
    /\ responses[1].status = 500

\* an action was decided for the request: it passed verification, its body
\* was parsed and summarised
Classified == Has(<< "decideAction", "return" >>)

\* the substring rule of the classifier, stated on the summary
AsksForAgent ==
    \/ Includes(ToLowerCase(summary), "build an agent")
    \/ Includes(ToLowerCase(summary), "generate a new agent")

\* C7: for every verified request exactly one of Executor and Builder is
\* invoked, the Builder exactly when the lower-cased summary contains one
\* of the two phrases.
C7_ExactlyOneDispatch ==
    (Terminal /\ Classified)
        => /\ ExecutorInvoked # BuilderInvoked
           /\ BuilderInvoked <=> AsksForAgent

\* the pipeline step an entry of the history belongs to
StepOf(e) ==
    CASE e[1] = "summarizeEvent" -> 1
      [] e[1] = "decideAction" -> 2
      [] e[1] \in {"logToSheet", "sheets.append"} -> 3
      [] e[1] \in {"sendTelegramNotification", "telegram.sendMessage"} -> 5
      [] e[1] = "respond" -> 6
      [] OTHER -> 4

\* the entries that open something and the entries that close it
Opens(e) == e[2] \in {"enter", "call"}
Closes(e) == e[2] \in {"return", "throw", "ok", "fail"} /\ StepOf(e) \in 3..5

\* how many calls and function bodies are open after the first n entries
OpenAfter(n) ==
    Cardinality({i \in 1..n : Opens(history[i])})
        - Cardinality({i \in 1..n : Closes(history[i])})

\* C8: the steps of a request occur in the order Summarizer, Classifier,
\* Logger, Executor-or-Builder, Notifier, response 200; a step begins only
\* when the step before it has returned and nothing of it is still open.
C8_FixedOrder ==
    /\ \A i, j \in DOMAIN history :
            i < j => StepOf(history[i]) <= StepOf(history[j])
    /\ \A j \in DOMAIN history :
            (j > 1 /\ StepOf(history[j]) > StepOf(history[j - 1]))
                => /\ OpenAfter(j - 1) = 0
                   /\ StepOf(history[j]) = StepOf(history[j - 1]) + 1
                   /\ history[j - 1][2] = "return"
    /\ \A j \in DOMAIN history :
            history[j][2] = "enter" => OpenAfter(j - 1) = 0
    /\ Has(<< "respond", "200" >>) => inflight = {}

C8_Witness ==
    /\ pc = "responded"
    /\ Has(<< "sheets.append", "ok" >>)
    /\ Has(<< "git.updateRef", "ok" >>)
    /\ Has(<< "telegram.sendMessage", "ok" >>)
    /\ history[Len(history)] = << "respond", "200" >>

\* C9: a webhook that passes verification produces exactly one log entry
\* (one append call when a destination is configured), exactly one dispatch
\* result and exactly one notification, whatever the collaborators do.
C9_ExactlyOnceEach ==
    (Terminal /\ Classified)
        => /\ Count(<< "logToSheet", "enter" >>) = 1
           /\ ~Falsy(env.GOOGLE_SHEETS_ID) =>
                (Count(<< "sheets.append", "call" >>) = 1 \/ getAuthThrows)
           /\ Count(<< "runAgent", "return" >>)
                + Count(<< "buildNewAgentRepo", "return" >>) = 1
           /\ Count(<< "sendTelegramNotification", "enter" >>) = 1

\* C10: without a store identifier the Logger calls nothing and raises
\* nothing, and the pipeline goes on to the dispatch as after a successful
\* append.
C10_NoDestination ==
    Falsy(env.GOOGLE_SHEETS_ID) =>
        /\ ~Has(<< "sheets.append", "call" >>)
        /\ \A c \in inflight : c.name # "sheets.append"
        /\ sheet = << >>
        /\ ~Has(<< "logToSheet", "throw" >>)
        /\ (Classified /\ pc # "logToSheet") =>
              /\ Has(<< "logToSheet", "return" >>)
              /\ ExecutorInvoked \/ BuilderInvoked \/ pc = "dispatch"
        /\ (pc = "responded" /\ Classified) => Responded200 /\ NotifierInvoked

C10_Witness ==
    /\ Falsy(env.GOOGLE_SHEETS_ID)
    /\ ~getAuthThrows
    /\ Responded200
    /\ Has(<< "logToSheet", "return" >>)
    /\ Has(<< "telegram.sendMessage", "ok" >>)

\* the entries of the history that are traffic with the repository host
IsHostEntry(e) ==
    \/ e[1] = "repos.createForAuthenticatedUser"
    \/ Len(e[1]) >= 4 /\ SubSeq(e[1], 1, 4) = "git."

HostEntries == SelectSeq(history, IsHostEntry)

\* C11: without the repository-host token or without the owner a BuildAgent
\* dispatch makes no call to the repository host and returns at once with
\* a configuration error as its string result.
C11_NoRemoteCallWithoutConfig ==
    (Falsy(env.GITHUB_TOKEN) \/ Falsy(env.GITHUB_OWNER)) =>
        /\ HostEntries = << >>
        /\ \A c \in inflight : ~IsHostEntry(<< c.name, "call" >>)
        /\ repos = {} /\ refs = {}
        /\ BuilderInvoked =>
              /\ Has(<< "buildNewAgentRepo", "return" >>)
              /\ ~Has(<< "buildNewAgentRepo", "throw" >>)
              /\ result = IF Falsy(env.GITHUB_TOKEN) THEN "Missing GITHUB_TOKEN"
                          ELSE "Missing GITHUB_OWNER"
              /\ pc = "responded" => Responded200

C11_Witness ==
    /\ ~Falsy(env.GITHUB_TOKEN) /\ Falsy(env.GITHUB_OWNER)
    /\ BuilderInvoked
    /\ Responded200
    /\ result = "Missing GITHUB_OWNER"

\* the order the claim gives for the calls to the repository host
ClaimedHostOrder ==
    << "repos.createForAuthenticatedUser", "git.getRef", "git.getCommit",
       "git.createBlob", "git.createTree", "git.createCommit", "git.updateRef" >>

\* C12: the remote steps of the Scaffold Builder run in the order create
\* repository, read ref, read commit, create blob, create tree, create
\* commit, update ref; a failing step ends the sequence and the dispatch
\* fails without a confirmation; the ref moves only with the final update
\* after every earlier step succeeded.
C12_BuilderSequence ==
    /\ \A k \in DOMAIN HostEntries :
          /\ HostEntries[k][1] = ClaimedHostOrder[(k + 1) \div 2]
          /\ k % 2 = 1 => HostEntries[k][2] = "call"
          /\ k % 2 = 0 => HostEntries[k][2] \in {"ok", "fail"}
          /\ (k > 1 /\ k % 2 = 1) => HostEntries[k - 1][2] = "ok"
    /\ (\E k \in DOMAIN HostEntries : HostEntries[k][2] = "fail") =>
          /\ HostEntries[Len(HostEntries)][2] = "fail"
          /\ pc = "rejected"
          /\ Has(<< "buildNewAgentRepo", "throw" >>)
          /\ ~Has(<< "buildNewAgentRepo", "return" >>)
          /\ result = ""
          /\ responses = << >>
    /\ refs # {} =>
          /\ Len(HostEntries) = 2 * Len(ClaimedHostOrder)
          /\ \A k \in DOMAIN HostEntries : HostEntries[k][2] # "fail"
          /\ refs = {repoName}
    /\ (HostEntries # << >> /\ Has(<< "buildNewAgentRepo", "return" >>)) =>
          /\ HostEntries[Len(HostEntries)] = << "git.updateRef", "ok" >>
          /\ result = "Created new agent repository: " \o repoName

C12_Witness ==
    /\ pc = "rejected"
    /\ Has(<< "git.createCommit", "fail" >>)
    /\ Has(<< "git.createTree", "ok" >>)
    /\ refs = {}
    /\ repos = {repoName}

\* the requests whose dispatch asked the host for a repository, and the
\* clock value each of them read for its name
Asked(r) == \E i \in DOMAIN history :
                history[i] = << "repos.createForAuthenticatedUser", "call", r >>
ClockRead(r) ==
    LET i == CHOOSE j \in DOMAIN history :
                history[j][1] = "Date.now" /\ history[j][3] = r
    IN history[i][2]

\* C13 as claimed: any two BuildAgent dispatches, also two that read the
\* clock in the same millisecond, ask for repositories with different names.
C13_NamesUnique ==
    \A r1, r2 \in Requests :
        (r1 # r2 /\ Asked(r1) /\ Asked(r2)) => repoName[r1] # repoName[r2]

\* C13 amended: two BuildAgent dispatches ask for different names exactly
\* when they read the clock at different milliseconds.
C13_NamesFollowClock ==
    \A r1, r2 \in Requests :
        (r1 # r2 /\ Asked(r1) /\ Asked(r2)) =>
            (repoName[r1] = repoName[r2] <=> ClockRead(r1) = ClockRead(r2))

C13_Witness ==
    \E r1, r2 \in Requests :
        /\ r1 # r2 /\ Asked(r1) /\ Asked(r2)
        /\ ClockRead(r1) # ClockRead(r2)
        /\ repoName[r1] # repoName[r2]
        /\ repos = {repoName[r1], repoName[r2]}

\* the dispatch step failed: the model call or a repository-host call
DispatchFailed ==
    Has(<< "runAgent", "throw" >>) \/ Has(<< "buildNewAgentRepo", "throw" >>)

\* C14: when the Executor or the Scaffold Builder fails internally on a
\* verified request, the handler still answers 200 and the result string
\* carries the description of the error.
C14_DispatchFailureIs200 ==
    (Terminal /\ DispatchFailed)
        => /\ Responded200
           /\ result # ""

\* C15: the Event Summarizer returns a summary for every event type and
\* every parsed payload and never raises an error.
C15_SummarizerTotal ==
    /\ ~Has(<< "summarizeEvent", "throw" >>)
    /\ rejection # "TypeError"

\* the text the claim gives for the commits of a push: the messages joined
\* by " | ", an absent message as the empty string or left out, an absent
\* commits array as the empty string
ClaimedCommitTexts(p) ==
    LET c == GetProp(p, "commits")
        msg(i) == GetProp(c.v[i], "message")
        present == SelectSeq([i \in 1..Len(c.v) |-> msg(i)],
                             LAMBDA m : ~Nullish(m))
    IN IF c.t # "array" THEN {""}
       ELSE {JoinSeq([i \in 1..Len(c.v) |->
                        IF Nullish(msg(i)) THEN "" ELSE msg(i).v], " | "),
             JoinSeq([i \in 1..Len(present) |-> present[i].v], " | ")}

ClaimedRepositoryName(p) ==
    LET n == OptProp(GetProp(p, "repository"), "full_name")
    IN IF Nullish(n) THEN "unknown" ELSE n.v

\* C16: for a push event the summary is "Push to " + the repository full
\* name or "unknown" + ": " + the commit messages joined by " | ", where an
\* absent commits array and an absent message add no text of their own.
C16_PushSummaryExact ==
    (req.event = Str("push") /\ Has(<< "summarizeEvent", "return" >>))
        => \E text \in ClaimedCommitTexts(payload) :
              summary = "Push to " \o ClaimedRepositoryName(payload) \o ": " \o text

MalformedBody ==
    \E i \in DOMAIN Bodies : Bodies[i].raw = req.body /\ ~Bodies[i].parsed.ok

\* C18: the body of a verified request is parsed before the pipeline
\* starts, so a correctly signed body that is not JSON causes no log append,
\* no Executor or Builder call and no notification.
C18_ParseBeforePipeline ==
    (Arrived /\ IsPost /\ HasBothHeaders /\ SignatureMatches /\ MalformedBody)
        => /\ pc \in BeforePipeline \cup {"parse"}
           /\ NoSideEffect
           /\ history = << >>
           /\ pc = "rejected" => rejection \in {"stream error", "SyntaxError"}

C18_Witness ==
    /\ IsPost /\ HasBothHeaders /\ SignatureMatches /\ MalformedBody
    /\ pc = "rejected"
    /\ rejection = "SyntaxError"
    /\ rawBody = req.body

====
